---- MODULE Spec2Model ----
(***************************************************************************)
(* A model of DeepSeekInvoiceExtractor (src/extract_invoices_deepseek.py): *)
(* text acquisition from a PDF, page-respecting chunking, per-chunk        *)
(* extraction through the completion endpoint, and deduplication.          *)
(*                                                                         *)
(* A Python string is a sequence of fragments; every fragment is a         *)
(* non-empty TLA+ string, so the empty sequence is the empty string and    *)
(* concatenation is \o.  A page marker, the chunk separator, a bracket, a  *)
(* JSON object literal are one fragment each.  A block fragment stands for *)
(* a long run of visible characters and has the length of that run; a run  *)
(* of brackets, longer than the decoder can nest, is one fragment too.     *)
(***************************************************************************)
EXTENDS Integers, Sequences, FiniteSets, TLC

VARIABLES
    pc,             \* position of the running call
    exc,            \* the exception that ended the call, "" when none
    entry,          \* the method the caller invoked
    n_pages,        \* number of pages of the opened document
    page_num,       \* pages rendered so far
    text,           \* the page-delimited document text
    doc,            \* the blocks a chunker input was written from
    max_tokens,     \* argument of split_text_into_chunks
    chunks,         \* the chunks the chunker returned
    chunk_idx,      \* chunks processed so far
    response,       \* what requests.post did for the last chunk
    chunk_invoices, \* what extract_invoice_data_from_chunk returned last
    per_chunk,      \* the list returned for each chunk so far
    all_invoices,   \* the accumulated list of extract_invoice_data
    result,         \* the value returned to the caller
    caller_depth    \* frames on the stack where the method is called, 1 at module level

vars == <<pc, exc, entry, n_pages, page_num, text, doc, max_tokens, chunks,
          chunk_idx, response, chunk_invoices, per_chunk, all_invoices, result,
          caller_depth>>

(***************************************************************************)
(* Bounds of the model and constants of the program.                       *)
(***************************************************************************)
MaxPages == 4
MaxTokens == 7
MaxContentLen == 5
MaxPdfPages == 2
MaxCallerDepth == 4
DefaultMaxTokens == 100000
CharsPerToken == 4

(***************************************************************************)
(* Strings.                                                                *)
(***************************************************************************)
Block == "<run of visible characters>"
BlockLen == DefaultMaxTokens * 2

Width(frag) == IF frag = Block THEN BlockLen ELSE Len(frag)

RECURSIVE StrLen(_)
StrLen(s) == IF s = <<>> THEN 0 ELSE Width(Head(s)) + StrLen(Tail(s))

WhitespaceFragments == {" ", "\n", "\n\n", "    "}

\* str.strip() of s is the empty string
IsBlank(s) == \A k \in 1..Len(s) : s[k] \in WhitespaceFragments

\* s[a:b] for 0 <= a, 0 <= b
Slice(s, a, b) == IF a >= b THEN <<>> ELSE SubSeq(s, a + 1, IF b > Len(s) THEN Len(s) ELSE b)

\* the depth of calls the interpreter allows: sys.getrecursionlimit()
RecursionLimit == 1000

\* a run of RecursionLimit characters "[", and a run of as many "]"
DeepOpen == "<run of [>"
DeepClose == "<run of ]>"

\* the fragments that hold the character ch; a run fragment holds nothing else
Holding(ch) ==
    IF ch = "[" THEN {"[", DeepOpen} ELSE IF ch = "]" THEN {"]", DeepClose} ELSE {ch}

\* str.find: the 0-based position of the first occurrence, -1 when there is none;
\* in a run fragment the first occurrence is the first character of the run
Find(s, ch) ==
    IF \E k \in 1..Len(s) : s[k] \in Holding(ch)
    THEN (CHOOSE k \in 1..Len(s) :
              s[k] \in Holding(ch) /\ \A j \in 1..(k - 1) : s[j] \notin Holding(ch)) - 1
    ELSE -1

\* str.rfind: the 0-based position of the last occurrence, -1 when there is none;
\* in a run fragment the last occurrence is the last character of the run
RFind(s, ch) ==
    IF \E k \in 1..Len(s) : s[k] \in Holding(ch)
    THEN (CHOOSE k \in 1..Len(s) :
              s[k] \in Holding(ch) /\ \A j \in (k + 1)..Len(s) : s[j] \notin Holding(ch)) - 1
    ELSE -1

(***************************************************************************)
(* The page marker the extractors write and the chunker splits on.         *)
(***************************************************************************)
Marker(n) == "===== Page " \o ToString(n) \o " ====="

\* the fragments that match the pattern ===== Page \d+ =====
MarkerFragments == {Marker(n) : n \in 1..(MaxPages + MaxPdfPages)}

\* what the chunker writes between the pages of a chunk
Separator == "\n===== Page =====\n"

\* re.split(pattern, text): the pieces between the matches, empty ones kept
RECURSIVE ReSplit(_)
ReSplit(s) ==
    IF \E k \in 1..Len(s) : s[k] \in MarkerFragments
    THEN LET k == CHOOSE k \in 1..Len(s) :
                      s[k] \in MarkerFragments /\ \A j \in 1..(k - 1) : s[j] \notin MarkerFragments
         IN  <<SubSeq(s, 1, k - 1)>> \o ReSplit(SubSeq(s, k + 1, Len(s)))
    ELSE <<s>>

\* [page for page in pages if page.strip()]
RECURSIVE NonBlank(_)
NonBlank(pages) ==
    IF pages = <<>> THEN <<>>
    ELSE IF IsBlank(Head(pages)) THEN NonBlank(Tail(pages))
    ELSE <<Head(pages)>> \o NonBlank(Tail(pages))

(***************************************************************************)
(* split_text_into_chunks                                                  *)
(***************************************************************************)
\* one iteration of the loop over the pages
PackPage(st, page, max_chars) ==
    IF StrLen(st.current_chunk) + StrLen(page) > max_chars
    THEN [chunks |-> Append(st.chunks, st.current_chunk), current_chunk |-> page]
    ELSE [chunks |-> st.chunks, current_chunk |-> st.current_chunk \o <<Separator>> \o page]

RECURSIVE PackPages(_, _, _)
PackPages(st, pages, max_chars) ==
    IF pages = <<>> THEN st
    ELSE PackPages(PackPage(st, Head(pages), max_chars), Tail(pages), max_chars)

\* the loop's result returned without the trailing append
FlushChunkForgotten(st) == st.chunks

\* the trailing "if current_chunk: chunks.append(current_chunk)"
FlushChunk(st) ==
    IF st.current_chunk # <<>> THEN Append(st.chunks, st.current_chunk) ELSE st.chunks

split_text_into_chunks(txt, maxtok) ==
    LET max_chars == maxtok * CharsPerToken
        pages == NonBlank(ReSplit(txt))
    IN  FlushChunk(PackPages([chunks |-> <<>>, current_chunk |-> <<>>], pages, max_chars))

(***************************************************************************)
(* JSON values: [t |-> "obj", v |-> dict], [t |-> "arr", v |-> list] and   *)
(* [t |-> "num", v |-> n].  A dict is a function from the keys it holds to *)
(* strings.                                                                *)
(***************************************************************************)
Obj(d) == [t |-> "obj", v |-> d]
Arr(l) == [t |-> "arr", v |-> l]
Num(n) == [t |-> "num", v |-> n]

Invoice(vendor, number, amount) ==
    ("Vendor Name" :> vendor) @@ ("Invoice Number" :> number) @@ ("Total Amount" :> amount)

\* the invoice objects the completions of the model hold
R1 == Invoice("a-b", "c", "1")
R2 == Invoice("a", "b-c", "2")
R3 == Invoice("a", "b-c", "3")
R4 == ("Invoice Number" :> "c") @@ ("Total Amount" :> "4")
R5 == Invoice("a", "c", "5")

InvoiceRecords == {R1, R2, R3, R4, R5}

FieldOrder == <<"Vendor Name", "Invoice Number", "Total Amount">>

\* json.dumps of a dict, its keys in FieldOrder
RECURSIVE Members(_, _, _)
Members(d, k, first) ==
    IF k > Len(FieldOrder) THEN ""
    ELSE IF FieldOrder[k] \notin DOMAIN d THEN Members(d, k + 1, first)
    ELSE (IF first THEN "" ELSE ", ")
         \o "\"" \o FieldOrder[k] \o "\": \"" \o d[FieldOrder[k]] \o "\""
         \o Members(d, k + 1, FALSE)

ObjectLiteral(d) == "{" \o Members(d, 1, TRUE) \o "}"

ObjectFragments == {ObjectLiteral(d) : d \in InvoiceRecords}

\* the dict an object literal denotes
ParseObject(frag) == CHOOSE d \in InvoiceRecords : ObjectLiteral(d) = frag

JsonWhitespace == {" ", "\n"}

\* the first position >= i of s that holds no JSON whitespace, Len(s) + 1 when none
SkipWs(s, i) ==
    IF \E k \in i..Len(s) : s[k] \notin JsonWhitespace
    THEN CHOOSE k \in i..Len(s) :
             s[k] \notin JsonWhitespace /\ \A j \in i..(k - 1) : s[j] \in JsonWhitespace
    ELSE Len(s) + 1

\* what the decoder does where it finds no value: it raises json.JSONDecodeError
ParseFail == [ok |-> FALSE, err |-> "JSONDecodeError", val |-> Num(0), next |-> 0]

\* the decoder out of stack: it raises RecursionError
ParseOverflow == [ok |-> FALSE, err |-> "RecursionError", val |-> Num(0), next |-> 0]

\* int() of a run of more than MaxStrDigits digits raises ValueError
ParseTooLong == [ok |-> FALSE, err |-> "ValueError", val |-> Num(0), next |-> 0]

\* the frames of json.loads, JSONDecoder.decode and JSONDecoder.raw_decode
DecoderFrames == 3

\* the level of nesting from which the decoder is out of stack, json.loads called by
\* the method whose frame is the frame-th of the stack: RecursionLimit less the frames
\* in use where the scanner starts
NestingLimit(frame) == RecursionLimit - DecoderFrames - frame

\* the frames the decoder takes to raise the JSONDecodeError of a missing delimiter
\* from within an array
DelimiterErrorFrames == 3

\* sys.get_int_max_str_digits()
MaxStrDigits == 4300

\* the levels of nesting a fragment opens
Nesting(frag) == IF frag = DeepOpen THEN RecursionLimit ELSE 1

\* the position after the run of digits that starts at position j of s
DigitsEnd(s, j) ==
    IF \E k \in j..Len(s) : s[k] # "1"
    THEN CHOOSE k \in j..Len(s) : s[k] # "1" /\ \A m \in j..(k - 1) : s[m] = "1"
    ELSE Len(s) + 1

\* the number written with n digits 1
RECURSIVE Ones(_)
Ones(n) == IF n = 0 THEN 0 ELSE 10 * Ones(n - 1) + 1

\* the JSON value that starts at position i of s within depth arrays, and the
\* position after it; limit is the level of nesting the stack has no room for
RECURSIVE ParseValue(_, _, _, _)
RECURSIVE ParseElements(_, _, _, _, _)
ParseValue(s, i, depth, limit) ==
    LET j == SkipWs(s, i) IN
    IF j > Len(s) THEN ParseFail
    ELSE IF s[j] \in ObjectFragments
         THEN IF depth + Nesting(s[j]) >= limit THEN ParseOverflow
              ELSE [ok |-> TRUE, err |-> "", val |-> Obj(ParseObject(s[j])), next |-> j + 1]
    ELSE IF s[j] = "1"
         THEN IF DigitsEnd(s, j) - j > MaxStrDigits THEN ParseTooLong
              ELSE [ok |-> TRUE, err |-> "", val |-> Num(Ones(DigitsEnd(s, j) - j)),
                    next |-> DigitsEnd(s, j)]
    ELSE IF s[j] \in Holding("[")
         THEN IF depth + Nesting(s[j]) >= limit THEN ParseOverflow
              ELSE LET k == SkipWs(s, j + 1) IN
                   IF k <= Len(s) /\ s[k] = "]"
                   THEN [ok |-> TRUE, err |-> "", val |-> Arr(<<>>), next |-> k + 1]
                   ELSE IF k <= Len(s) /\ s[k] = DeepClose THEN ParseFail
                   ELSE ParseElements(s, j + 1, <<>>, depth + 1, limit)
    ELSE ParseFail

\* the elements of the array of level depth, from position i on.  A run of "]" closes
\* the array and every array around it and leaves "]" over: no value
ParseElements(s, i, acc, depth, limit) ==
    LET r == ParseValue(s, i, depth, limit) IN
    IF ~r.ok THEN r
    ELSE LET k == SkipWs(s, r.next) IN
         IF k <= Len(s) /\ s[k] = ","
         THEN ParseElements(s, k + 1, Append(acc, r.val), depth, limit)
         ELSE IF k <= Len(s) /\ s[k] = "]"
         THEN [ok |-> TRUE, err |-> "", val |-> Arr(Append(acc, r.val)), next |-> k + 1]
         ELSE IF k <= Len(s) /\ s[k] = DeepClose THEN ParseFail
         ELSE IF depth + DelimiterErrorFrames >= limit THEN ParseOverflow
         ELSE ParseFail

\* json.loads called from the frame-th frame of the stack: ok is FALSE where it
\* raises, and err is the exception
json_loads(s, frame) ==
    LET r == ParseValue(s, 1, 0, NestingLimit(frame)) IN
    IF ~r.ok THEN [ok |-> FALSE, err |-> r.err, val |-> Num(0)]
    ELSE IF SkipWs(s, r.next) > Len(s) THEN [ok |-> TRUE, err |-> "", val |-> r.val]
    ELSE [ok |-> FALSE, err |-> "JSONDecodeError", val |-> Num(0)]

(***************************************************************************)
(* extract_invoice_data_from_chunk.  A call returns [exc, val]: the        *)
(* exception it raised ("" when it returned) and the list it returned.     *)
(***************************************************************************)
Returned(l) == [exc |-> "", val |-> l]
Raised(e) == [exc |-> e, val |-> <<>>]

\* what requests.post does: it raises (sent = FALSE) or gives a response with a
\* status, whose body is "ok" (choices[0].message.content is the string content),
\* "no_choices" (JSON of another shape), "null_content" (content is null) or
\* "not_json"
Response(sent, status, body, content) ==
    [sent |-> sent, status |-> status, body |-> body, content |-> content]

\* no request made yet
NoResponse == Response(FALSE, 0, "unset", <<>>)

\* the exceptions the except clause of the try block names
CaughtExceptions == {"JSONDecodeError", "ValueError"}

\* the try block with json_start taken at the last "[" of the content
ParseContentLastOpen(content, frame) ==
    LET json_start == RFind(content, "[")
        json_end == RFind(content, "]") + 1
    IN  IF json_start = -1 \/ json_end = 0 THEN Returned(<<>>)
        ELSE LET parsed == json_loads(IF json_start < json_end
                                      THEN <<"[">> \o Slice(content, json_start + 1, json_end)
                                      ELSE <<>>, frame) IN
             IF parsed.ok THEN Returned(parsed.val.v)
             ELSE IF parsed.err \in CaughtExceptions THEN Returned(<<>>)
             ELSE Raised(parsed.err)

\* the try block: find the array in the content and parse it; an exception the except
\* clause does not name leaves the method
ParseContent(content, frame) ==
    LET json_start == Find(content, "[")
        json_end == RFind(content, "]") + 1
    IN  IF json_start = -1 \/ json_end = 0 THEN Returned(<<>>)
        ELSE LET parsed == json_loads(Slice(content, json_start, json_end), frame) IN
             IF parsed.ok THEN Returned(parsed.val.v)
             ELSE IF parsed.err \in CaughtExceptions THEN Returned(<<>>)
             ELSE Raised(parsed.err)

\* the method, its frame the frame-th of the stack
extract_invoice_data_from_chunk(resp, frame) ==
    IF ~resp.sent THEN Raised("ConnectionError")
    ELSE IF resp.status = 200
         THEN IF resp.body = "not_json" THEN Raised("JSONDecodeError")
              ELSE IF resp.body = "no_choices" THEN Raised("KeyError")
              ELSE IF resp.body = "null_content" THEN Raised("AttributeError")
              ELSE ParseContent(resp.content, frame)
    ELSE Returned(<<>>)

(***************************************************************************)
(* The deduplication of extract_invoice_data.  unique_invoices is a dict   *)
(* in insertion order: a list of [key, value].                             *)
(***************************************************************************)
\* dict.get(key, default)
DictGet(d, key, default) == IF key \in DOMAIN d THEN d[key] ELSE default

\* f"{invoice.get('Vendor Name', '')}-{invoice.get('Invoice Number', '')}"
invoice_id(invoice) ==
    DictGet(invoice, "Vendor Name", "") \o "-" \o DictGet(invoice, "Invoice Number", "")

HasKey(unique_invoices, id) == \E k \in 1..Len(unique_invoices) : unique_invoices[k].key = id

\* unconditional "unique_invoices[invoice_id] = invoice": the last record wins
InsertOverwrite(unique_invoices, invoice) ==
    LET id == invoice_id(invoice.v) IN
    IF HasKey(unique_invoices, id)
    THEN [k \in 1..Len(unique_invoices) |->
            IF unique_invoices[k].key = id THEN [key |-> id, value |-> invoice]
            ELSE unique_invoices[k]]
    ELSE Append(unique_invoices, [key |-> id, value |-> invoice])

\* "if invoice_id not in unique_invoices: unique_invoices[invoice_id] = invoice"
InsertIfAbsent(unique_invoices, invoice) ==
    LET id == invoice_id(invoice.v) IN
    IF HasKey(unique_invoices, id) THEN unique_invoices
    ELSE Append(unique_invoices, [key |-> id, value |-> invoice])

\* list(unique_invoices.values())
Values(unique_invoices) == [k \in 1..Len(unique_invoices) |-> unique_invoices[k].value]

\* the loop over all_invoices; invoice.get raises on what is no dict
RECURSIVE RemoveDuplicates(_, _)
RemoveDuplicates(invoices, unique_invoices) ==
    IF invoices = <<>> THEN Returned(Values(unique_invoices))
    ELSE IF Head(invoices).t # "obj" THEN Raised("AttributeError")
    ELSE RemoveDuplicates(Tail(invoices), InsertIfAbsent(unique_invoices, Head(invoices)))

\* all_invoices = chunk_invoices in place of extend
ExtendOverwrite(invoices, more) == more

\* all_invoices.extend(chunk_invoices)
Extend(invoices, more) == invoices \o more

(***************************************************************************)
(* Inputs.                                                                 *)
(***************************************************************************)
Preambles == {<<>>, <<"\n", "    ">>}

\* the blocks between the markers of a chunker input
PageBlocks ==
    { <<>>,
      <<"\n", "\n\n">>,
      <<"\n", "ab", "\n\n">>,
      <<"\n", "Invoice 12", "\n\n">>,
      <<"\n", "Vendor Name: Example Vendor, Invoice", "\n\n">> }

RECURSIVE Delimited(_, _)
Delimited(blocks, n) ==
    IF blocks = <<>> THEN <<>>
    ELSE <<Marker(n)>> \o Head(blocks) \o Delimited(Tail(blocks), n + 1)

DocumentText(d) == d.pre \o Delimited(d.pages, 1)

Documents ==
    { [pre |-> p, pages |-> b] :
        p \in Preambles, b \in UNION { [1..n -> PageBlocks] : n \in 0..MaxPages } }

NoDoc == [pre |-> <<>>, pages |-> <<>>]

\* what rendering a page gives: a text, None, or an exception
RenderedTexts == { <<>>, <<"ab">>, <<Block>>, <<Block, Block>> }
RenderNone == <<"<None>">>
RenderRaises == <<"<raise>">>
RenderOutcomes == RenderedTexts \cup {RenderNone, RenderRaises}

ContentAlphabet == {"[", "]", ",", " ", "x", "1", ObjectLiteral(R1), DeepOpen, DeepClose}

Contents == UNION { [1..n -> ContentAlphabet] : n \in 0..MaxContentLen }

FailedResponses ==
    { Response(FALSE, 0, "none", <<>>) }
    \cup { Response(TRUE, s, "ok", <<"[", ObjectLiteral(R1), "]">>) : s \in {204, 400, 500} }
    \cup { Response(TRUE, 200, b, <<>>) : b \in {"not_json", "no_choices", "null_content"} }

AllResponses == FailedResponses \cup { Response(TRUE, 200, "ok", c) : c \in Contents }

PipelineContents ==
    { <<"[", ObjectLiteral(R1), "]">>,
      <<"[", ObjectLiteral(R2), ",", ObjectLiteral(R3), "]">>,
      <<"[", ObjectLiteral(R3), "]">>,
      <<"[", ObjectLiteral(R4), ",", " ", ObjectLiteral(R5), "]">>,
      <<"[", "]">>,
      <<"x">>,
      <<"[", "1", "]">>,
      <<"x", " ", "[", ObjectLiteral(R2), "]", "\n", "x">> }

PipelineResponses == FailedResponses \cup { Response(TRUE, 200, "ok", c) : c \in PipelineContents }

TextExtractors == {"extract_text_from_pdf", "extract_text_from_pdf1", "extract_text_from_pdf_fitz"}

(***************************************************************************)
(* Text extraction: extract_text_from_pdf (OCR), extract_text_from_pdf1    *)
(* (PyPDF2) and extract_text_from_pdf_fitz open the document, then add for *)
(* each page its marker line and its rendered text.                        *)
(***************************************************************************)
\* text += f"===== Page {n} =====\n"; text += page_text + "\n\n"
AddPage(txt, n, page_text) == txt \o <<Marker(n), "\n">> \o page_text \o <<"\n\n">>

\* convert_from_bytes / PdfReader / fitz.open: the page count, or an exception
OpenPdf ==
    /\ pc = "open"
    /\ \/ /\ pc' = "raised"
          /\ exc' = "PdfOpenError"
          /\ UNCHANGED n_pages
       \/ /\ \E n \in 0..MaxPdfPages : n_pages' = n
          /\ pc' = "render"
          /\ UNCHANGED exc
    /\ UNCHANGED <<entry, page_num, text, doc, max_tokens, chunks, chunk_idx, response,
                   chunk_invoices, per_chunk, all_invoices, result,
                   caller_depth>>

\* one iteration of the loop over the pages
RenderPage ==
    /\ pc = "render"
    /\ page_num < n_pages
    /\ \E outcome \in RenderOutcomes :
          IF outcome = RenderRaises
          THEN pc' = "raised" /\ exc' = "RenderError" /\ UNCHANGED <<page_num, text>>
          ELSE IF outcome = RenderNone
          THEN pc' = "raised" /\ exc' = "TypeError" /\ UNCHANGED <<page_num, text>>
          ELSE /\ text' = AddPage(text, page_num + 1, outcome)
               /\ page_num' = page_num + 1
               /\ UNCHANGED <<pc, exc>>
    /\ UNCHANGED <<entry, n_pages, doc, max_tokens, chunks, chunk_idx, response,
                   chunk_invoices, per_chunk, all_invoices, result,
                   caller_depth>>

\* "return text" of a text extraction method called on its own
ReturnText ==
    /\ pc = "render"
    /\ page_num = n_pages
    /\ entry \in TextExtractors
    /\ result' = text
    /\ pc' = "done"
    /\ UNCHANGED <<exc, entry, n_pages, page_num, text, doc, max_tokens, chunks, chunk_idx,
                   response, chunk_invoices, per_chunk, all_invoices,
                   caller_depth>>

(***************************************************************************)
(* extract_invoice_data                                                    *)
(***************************************************************************)
\* chunks = self.split_text_into_chunks(text), once the text is extracted
SplitText ==
    /\ pc = "render"
    /\ page_num = n_pages
    /\ entry = "extract_invoice_data"
    /\ max_tokens' = DefaultMaxTokens
    /\ chunks' = split_text_into_chunks(text, DefaultMaxTokens)
    /\ pc' = "chunks"
    /\ UNCHANGED <<exc, entry, n_pages, page_num, text, doc, chunk_idx, response,
                   chunk_invoices, per_chunk, all_invoices, result,
                   caller_depth>>

\* one iteration of the loop over the chunks
ProcessChunk ==
    /\ pc = "chunks"
    /\ chunk_idx < Len(chunks)
    /\ \E resp \in PipelineResponses :
          LET r == extract_invoice_data_from_chunk(resp, caller_depth + 2) IN
          /\ response' = resp
          /\ IF r.exc # ""
             THEN /\ pc' = "raised"
                  /\ exc' = r.exc
                  /\ UNCHANGED <<chunk_idx, chunk_invoices, per_chunk, all_invoices>>
             ELSE /\ chunk_invoices' = r.val
                  /\ per_chunk' = Append(per_chunk, r.val)
                  /\ all_invoices' = Extend(all_invoices, r.val)
                  /\ chunk_idx' = chunk_idx + 1
                  /\ UNCHANGED <<pc, exc>>
    /\ UNCHANGED <<entry, n_pages, page_num, text, doc, max_tokens, chunks, result,
                   caller_depth>>

\* the deduplication and the return, once every chunk is processed
Deduplicate ==
    /\ pc = "chunks"
    /\ chunk_idx = Len(chunks)
    /\ LET r == RemoveDuplicates(all_invoices, <<>>) IN
       IF r.exc # ""
       THEN pc' = "raised" /\ exc' = "DedupAttributeError" /\ UNCHANGED result
       ELSE pc' = "done" /\ result' = r.val /\ UNCHANGED exc
    /\ UNCHANGED <<entry, n_pages, page_num, text, doc, max_tokens, chunks, chunk_idx,
                   response, chunk_invoices, per_chunk, all_invoices,
                   caller_depth>>

Init ==
    /\ pc = "open"
    /\ exc = ""
    /\ entry = "extract_invoice_data"
    /\ n_pages = 0
    /\ page_num = 0
    /\ text = <<>>
    /\ doc = NoDoc
    /\ max_tokens = 0
    /\ chunks = <<>>
    /\ chunk_idx = 0
    /\ response = NoResponse
    /\ chunk_invoices = <<>>
    /\ per_chunk = <<>>
    /\ all_invoices = <<>>
    /\ result = <<>>
    /\ caller_depth \in 1..MaxCallerDepth

Next == OpenPdf \/ RenderPage \/ SplitText \/ ProcessChunk \/ Deduplicate

Spec == Init /\ [][Next]_vars

(***************************************************************************)
(* SpecText: a call of one of the three text extraction methods.           *)
(***************************************************************************)
InitText ==
    /\ pc = "open"
    /\ exc = ""
    /\ entry \in TextExtractors
    /\ n_pages = 0
    /\ page_num = 0
    /\ text = <<>>
    /\ doc = NoDoc
    /\ max_tokens = 0
    /\ chunks = <<>>
    /\ chunk_idx = 0
    /\ response = NoResponse
    /\ chunk_invoices = <<>>
    /\ per_chunk = <<>>
    /\ all_invoices = <<>>
    /\ result = <<>>
    /\ caller_depth = 1

NextText == OpenPdf \/ RenderPage \/ ReturnText

SpecText == InitText /\ [][NextText]_vars

(***************************************************************************)
(* SpecSplit: a call of split_text_into_chunks(text, max_tokens).          *)
(***************************************************************************)
InitSplit ==
    /\ pc = "split"
    /\ exc = ""
    /\ entry = "split_text_into_chunks"
    /\ n_pages = 0
    /\ page_num = 0
    /\ doc \in Documents
    /\ text = DocumentText(doc)
    /\ max_tokens \in 0..MaxTokens
    /\ chunks = <<>>
    /\ chunk_idx = 0
    /\ response = NoResponse
    /\ chunk_invoices = <<>>
    /\ per_chunk = <<>>
    /\ all_invoices = <<>>
    /\ result = <<>>
    /\ caller_depth = 1

CallSplit ==
    /\ pc = "split"
    /\ chunks' = split_text_into_chunks(text, max_tokens)
    /\ pc' = "done"
    /\ UNCHANGED <<exc, entry, n_pages, page_num, text, doc, max_tokens, chunk_idx,
                   response, chunk_invoices, per_chunk, all_invoices, result,
                   caller_depth>>

NextSplit == CallSplit

SpecSplit == InitSplit /\ [][NextSplit]_vars

(***************************************************************************)
(* SpecChunk: a call of extract_invoice_data_from_chunk, the completion    *)
(* endpoint answering with any response of the model.                      *)
(***************************************************************************)
InitChunk ==
    /\ pc = "request"
    /\ exc = ""
    /\ entry = "extract_invoice_data_from_chunk"
    /\ n_pages = 0
    /\ page_num = 0
    /\ text = <<>>
    /\ doc = NoDoc
    /\ max_tokens = 0
    /\ chunks = <<>>
    /\ chunk_idx = 0
    /\ response = NoResponse
    /\ chunk_invoices = <<>>
    /\ per_chunk = <<>>
    /\ all_invoices = <<>>
    /\ result = <<>>
    /\ caller_depth \in 1..MaxCallerDepth

CallChunk ==
    /\ pc = "request"
    /\ \E resp \in AllResponses :
          LET r == extract_invoice_data_from_chunk(resp, caller_depth + 1) IN
          /\ response' = resp
          /\ IF r.exc # ""
             THEN pc' = "raised" /\ exc' = r.exc /\ UNCHANGED chunk_invoices
             ELSE pc' = "done" /\ chunk_invoices' = r.val /\ UNCHANGED exc
    /\ UNCHANGED <<entry, n_pages, page_num, text, doc, max_tokens, chunks, chunk_idx,
                   per_chunk, all_invoices, result,
                   caller_depth>>

NextChunk == CallChunk

SpecChunk == InitChunk /\ [][NextChunk]_vars

(***************************************************************************)
(* Properties of split_text_into_chunks, under SpecSplit.                  *)
(***************************************************************************)
SplitReturned == entry = "split_text_into_chunks" /\ pc = "done"

MaxChars == max_tokens * CharsPerToken

\* the pieces of s between the occurrences of frag
RECURSIVE PiecesBetween(_, _)
PiecesBetween(s, frag) ==
    IF \E k \in 1..Len(s) : s[k] = frag
    THEN LET k == CHOOSE k \in 1..Len(s) : s[k] = frag /\ \A j \in 1..(k - 1) : s[j] # frag
         IN  <<SubSeq(s, 1, k - 1)>> \o PiecesBetween(SubSeq(s, k + 1, Len(s)), frag)
    ELSE <<s>>

\* the page texts a chunk holds, in the order it holds them
PagesOfChunk(chunk) == SelectSeq(PiecesBetween(chunk, Separator), LAMBDA piece : piece # <<>>)

RECURSIVE PagesOfChunks(_)
PagesOfChunks(cs) ==
    IF cs = <<>> THEN <<>> ELSE PagesOfChunk(Head(cs)) \o PagesOfChunks(Tail(cs))

\* the pages of the document that are not whitespace-only, in page order
VisiblePages == SelectSeq(doc.pages, LAMBDA block : ~IsBlank(block))

\* C5: the page texts of the chunks, read chunk after chunk, are exactly the
\* document's non-whitespace pages in page order: each such page is whole in one
\* chunk and in no other, and no whitespace-only page is in any chunk.
C5_PagesPartitioned == SplitReturned => PagesOfChunks(chunks) = VisiblePages

\* a split into several chunks, one of them holding two pages, of a document with a
\* whitespace-only page
C5_Witness ==
    /\ SplitReturned
    /\ Len(chunks) >= 2
    /\ \E k \in 1..Len(chunks) : Len(PagesOfChunk(chunks[k])) >= 2
    /\ \E k \in 1..Len(doc.pages) : IsBlank(doc.pages[k])

\* C6: a two-page document whose pages hold visible text and are each longer than
\* max_tokens * 4 gives exactly two chunks, page 1's text and then page 2's text.
C6_TwoOversizedPagesTwoChunks ==
    ( /\ SplitReturned
      /\ Len(doc.pages) = 2
      /\ ~IsBlank(doc.pages[1]) /\ ~IsBlank(doc.pages[2])
      /\ StrLen(doc.pages[1]) > MaxChars
      /\ StrLen(doc.pages[2]) > MaxChars )
    => chunks = <<doc.pages[1], doc.pages[2]>>

\* C10: every chunk is at most max_tokens * 4 characters long, unless it is a single
\* page that is itself longer than that.
C10_ChunksWithinBudget ==
    SplitReturned =>
        \A k \in 1..Len(chunks) :
            \/ StrLen(chunks[k]) <= MaxChars
            \/ /\ Len(PagesOfChunk(chunks[k])) = 1
               /\ StrLen(PagesOfChunk(chunks[k])[1]) > MaxChars

(***************************************************************************)
(* Properties of extract_invoice_data_from_chunk, under SpecChunk.         *)
(***************************************************************************)
ChunkCallEnded == entry = "extract_invoice_data_from_chunk" /\ pc \in {"done", "raised"}

\* the frame of the method called on its own
ChunkFrame == caller_depth + 1

ReturnedEmpty == pc = "done" /\ chunk_invoices = <<>>

ContentReceived == response.sent /\ response.status = 200 /\ response.body = "ok"

HasOpen == \E k \in 1..Len(response.content) : response.content[k] \in Holding("[")
HasClose == \E k \in 1..Len(response.content) : response.content[k] \in Holding("]")

\* the content from its first "[" through its last "]"
FirstOpen == CHOOSE k \in 1..Len(response.content) :
                 /\ response.content[k] \in Holding("[")
                 /\ \A j \in 1..(k - 1) : response.content[j] \notin Holding("[")
LastClose == CHOOSE k \in 1..Len(response.content) :
                 /\ response.content[k] \in Holding("]")
                 /\ \A j \in (k + 1)..Len(response.content) : response.content[j] \notin Holding("]")
Bracketed == SubSeq(response.content, FirstOpen, LastClose)

\* C1: the call returns the empty list, and raises nothing, when the status is not
\* 2xx, when the content lacks a "[" or lacks a "]", and when the text from the first
\* "[" through the last "]" does not parse as JSON.
C1_EmptyOnFailure ==
    ChunkCallEnded =>
        /\ (response.sent /\ response.status \notin 200..299) => ReturnedEmpty
        /\ (ContentReceived /\ (~HasOpen \/ ~HasClose)) => ReturnedEmpty
        /\ (ContentReceived /\ HasOpen /\ HasClose /\ ~json_loads(Bracketed, ChunkFrame).ok)
              => ReturnedEmpty

\* C9: with status 200 and both brackets in the content, the call returns the array
\* parsed from the first "[" through the last "]"; a content that is itself a JSON
\* array is returned as that array.
C9_ReturnsBracketedArray ==
    (ChunkCallEnded /\ ContentReceived /\ HasOpen /\ HasClose) =>
        /\ json_loads(Bracketed, ChunkFrame).ok =>
              (pc = "done" /\ chunk_invoices = json_loads(Bracketed, ChunkFrame).val.v)
        /\ (/\ json_loads(response.content, ChunkFrame).ok
            /\ json_loads(response.content, ChunkFrame).val.t = "arr") =>
              (pc = "done" /\ chunk_invoices = json_loads(response.content, ChunkFrame).val.v)

\* text before the first "[" and after the last "]", and an invoice object returned
C9_Witness ==
    /\ ChunkCallEnded /\ ContentReceived /\ HasOpen /\ HasClose
    /\ FirstOpen > 1 /\ response.content[1] = "x"
    /\ LastClose < Len(response.content) /\ response.content[Len(response.content)] = "x"
    /\ pc = "done"
    /\ chunk_invoices = <<Obj(R1)>>

(***************************************************************************)
(* Properties of the text extraction methods, under SpecText.              *)
(***************************************************************************)
\* C7: a page whose rendering raises or gives None counts as an empty text and the
\* other pages are still extracted: a text extraction ends with an exception only
\* when the document itself cannot be opened.
C7_PageFailureTolerated ==
    (entry \in TextExtractors /\ pc = "raised") => exc = "PdfOpenError"

(***************************************************************************)
(* Properties of extract_invoice_data, under Spec.                         *)
(***************************************************************************)
PipelineReturned == entry = "extract_invoice_data" /\ pc = "done"

\* a completion step that failed: the request raised, or the 200 response has no
\* choices[0].message.content string
CompletionFailed ==
    \/ ~response.sent
    \/ response.status = 200 /\ response.body # "ok"

\* C2: a chunk whose completion step fails contributes no record and the run goes
\* on: the call is not ended by an exception.
C2_ChunkFailureAbsorbed ==
    (entry = "extract_invoice_data" /\ response # NoResponse /\ CompletionFailed)
    => (pc # "raised" /\ chunk_invoices = <<>>)

\* a list of invoice records: every member is a dict
AllRecords(invoices) == \A k \in 1..Len(invoices) : invoices[k].t = "obj"

\* C3: records extracted from earlier chunks reach the caller whatever fails later:
\* no call ends with an exception after a chunk has yielded invoice records.
C3_ExtractedRecordsReturned ==
    (entry = "extract_invoice_data" /\ all_invoices # <<>> /\ AllRecords(all_invoices))
    => pc # "raised"

\* the per-chunk lists, flattened in chunk order and then within-chunk order
RECURSIVE Flatten(_)
Flatten(lists) == IF lists = <<>> THEN <<>> ELSE Head(lists) \o Flatten(Tail(lists))

Flat == Flatten(per_chunk)

\* the identity of an extracted record: the key derived from its vendor name and
\* its invoice number
IdentityOf(record) == IF record.t = "obj" THEN invoice_id(record.v) ELSE "<no dict>"

\* the positions of Flat whose identity occurs at no earlier position
FirstSeen == { i \in 1..Len(Flat) :
                 \A j \in 1..(i - 1) : IdentityOf(Flat[j]) # IdentityOf(Flat[i]) }

\* the k-th smallest member of a set of positions
Kth(positions, k) == CHOOSE i \in positions : Cardinality({j \in positions : j <= i}) = k

\* two records with the same Vendor Name and the same Invoice Number (held or missing)
SameVendorAndNumber(a, b) ==
    /\ a.t = "obj" /\ b.t = "obj"
    /\ \A f \in {"Vendor Name", "Invoice Number"} :
          /\ (f \in DOMAIN a.v) = (f \in DOMAIN b.v)
          /\ f \in DOMAIN a.v => a.v[f] = b.v[f]

\* C4: when two extracted records have the same Vendor Name and the same Invoice
\* Number, the result holds exactly one record of their identity, and that record is,
\* field for field, the first record of that identity in chunk-then-within-chunk
\* order.
C4_FirstWriteWins ==
    PipelineReturned =>
        \A i, j \in 1..Len(Flat) :
            (i < j /\ SameVendorAndNumber(Flat[i], Flat[j])) =>
                LET id == IdentityOf(Flat[i])
                    first == CHOOSE k \in FirstSeen : IdentityOf(Flat[k]) = id
                    held == { r \in 1..Len(result) : IdentityOf(result[r]) = id }
                IN  /\ Cardinality(held) = 1
                    /\ \A r \in held : result[r] = Flat[first]

\* two chunks gave records with the same Vendor Name and Invoice Number and with
\* different amounts; the result holds the first
C4_Witness ==
    /\ PipelineReturned
    /\ Len(per_chunk) >= 2
    /\ \E i, j \in 1..Len(Flat) :
          /\ i <= Len(per_chunk[1]) /\ Len(per_chunk[1]) < j
          /\ SameVendorAndNumber(Flat[i], Flat[j])
          /\ Flat[i] # Flat[j]
          /\ \A k \in 1..(i - 1) : IdentityOf(Flat[k]) # IdentityOf(Flat[i])
          /\ \E r \in 1..Len(result) : result[r] = Flat[i]

\* C8: the result is the flattened per-chunk lists with every record removed whose
\* identity was seen before; with all identities distinct it is the flattened list.
C8_ResultIsFirstSeenOfFlattened ==
    PipelineReturned =>
        /\ Len(result) = Cardinality(FirstSeen)
        /\ \A k \in 1..Len(result) : result[k] = Flat[Kth(FirstSeen, k)]
        /\ (FirstSeen = 1..Len(Flat)) => result = Flat

\* several chunks gave records, some of an identity seen before, and the result holds
\* records of several chunks
C8_Witness ==
    /\ PipelineReturned
    /\ Len(per_chunk) >= 2
    /\ per_chunk[1] # <<>> /\ per_chunk[2] # <<>>
    /\ Len(result) >= 2
    /\ Len(result) < Len(Flat)
    /\ Kth(FirstSeen, Len(result)) > Len(per_chunk[1])

\* C11: records whose (Vendor Name, Invoice Number) pairs differ are never taken for
\* duplicates: for every extracted record the result holds a record with the same
\* Vendor Name and the same Invoice Number.
C11_EveryPairKept ==
    PipelineReturned =>
        \A i \in 1..Len(Flat) :
            \E r \in 1..Len(result) : SameVendorAndNumber(result[r], Flat[i])

====
